---------------------------- MODULE Spec2Model ----------------------------
(***************************************************************************)
(* A model of src/main.py: a straight-line script that builds one          *)
(* document-question-answering pipeline and then, four times, calls it on  *)
(* a hard-coded (image URL, question) pair, binds the returned dictionary  *)
(* to the global `out` and prints it.                                      *)
(*                                                                         *)
(* The pipeline (the "backend") is an external collaborator.  Each call to *)
(* it either returns a raw result dictionary or raises; the model chooses  *)
(* among these outcomes nondeterministically.  The script contains no      *)
(* try/except, no validation and no post-processing of the result.         *)
(*                                                                         *)
(* Scores are floats in the program; the model holds them in thousandths   *)
(* (0.994 is 994, 1.0 is 1000, -0.1 is -100).                              *)
(* An optional token offset is a sequence of length 0 (None) or 1.         *)
(***************************************************************************)
EXTENDS Integers, Sequences, FiniteSets

VARIABLES
    pc,      \* position of the script: "build", "call", "print", "done", "raised"
    k,       \* index (1..NumCalls) of the call statement being executed; 0 before
    nlp,     \* the global `nlp`: "unbound" or "pipeline"
    builds,  \* how many times pipeline(...) has been invoked
    out,     \* the global `out`: <<>> while unbound, else <<dict>>
    stdout,  \* what print() has written, in order
    log,     \* the backend's record of its invocations: arguments and outcome
    exc      \* the exception the script died with, "none" while it runs

vars == <<pc, k, nlp, builds, out, stdout, log, exc>>

-----------------------------------------------------------------------------
(* Bounds of the environment *)

\* Largest token offset the backend reports.
MaxToken == 1

-----------------------------------------------------------------------------
(* The program's literals *)

\* The four (image URL, question) pairs, in source order.
Calls ==
    << [url |-> "https://templates.invoicehome.com/invoice-template-us-neat-750px.png",
        question |-> "What is the invoice number?"],
       [url |-> "https://miro.medium.com/max/787/1*iECQRIiOGTmEFLdWkVIH2g.jpeg",
        question |-> "What is the purchase amount?"],
       [url |-> "https://www.accountingcoach.com/wp-content/uploads/2013/10/income-statement-example@2x.png",
        question |-> "What are the 2020 net sales?"],
       [url |-> "https://1.bp.blogspot.com/-BW3v9mAyzKY/XiLJePf90KI/AAAAAAABMi8/bbdAplvI-dsejDoT4ukBxj72gCYk9GZ2gCLcBGAsYHQ/s1600/license-plate-2020.jpg",
        question |-> "What are the car plate text?"] >>

NumCalls == Len(Calls)

-----------------------------------------------------------------------------
(* The backend's possible behaviour *)

None == <<>>

Some(n) == <<n>>

\* Scores the backend may report: below zero, an ordinary one (the source's
\* recorded 0.994), and above one.
Scores == {-100, 994, 1500}

\* (start, end) pairs: no span, an ordered span, a reversed span.
Spans == { <<None, None>>, <<Some(0), Some(MaxToken)>>, <<Some(MaxToken), Some(0)>> }

\* Raw result dictionaries: with an answer, with an empty answer, and with
\* the answer key missing.
RawResults ==
    { [score |-> s, answer |-> a, start |-> sp[1], end |-> sp[2]] :
          s \in Scores, a \in {"us-001", ""}, sp \in Spans }
    \cup
    { [score |-> s, start |-> sp[1], end |-> sp[2]] : s \in Scores, sp \in Spans }

\* Ways a call into the backend may fail.
ErrorKinds == {"timeout", "unreachable", "malformed_input"}

Returned(r) == [result |-> r]

Raised(e) == [error |-> e]

IsResult(o) == "result" \in DOMAIN o

IsError(o) == "error" \in DOMAIN o

-----------------------------------------------------------------------------
(* The script *)

Init ==
    /\ pc = "build"
    /\ k = 0
    /\ nlp = "unbound"
    /\ builds = 0
    /\ out = <<>>
    /\ stdout = <<>>
    /\ log = <<>>
    /\ exc = "none"

\* nlp = pipeline("document-question-answering", model=...) succeeds.
BuildOk ==
    /\ pc = "build"
    /\ builds' = builds + 1
    /\ nlp' = "pipeline"
    /\ k' = 1
    /\ pc' = "call"
    /\ UNCHANGED <<out, stdout, log, exc>>

\* pipeline(...) raises: the script dies before any inference call.
BuildRaises ==
    /\ pc = "build"
    /\ \E e \in ErrorKinds :
          /\ builds' = builds + 1
          /\ exc' = e
          /\ pc' = "raised"
    /\ UNCHANGED <<k, nlp, out, stdout, log>>

\* One invocation of the backend, as the backend records it.
Invocation(c, o) == [url |-> c.url, question |-> c.question, outcome |-> o]

\* The runner the design document describes: a "no confident answer" result is
\* replaced by the empty-answer record before it is bound to `out`.
CallReturnsNormalized ==
    /\ pc = "call"
    /\ nlp = "pipeline"
    /\ \E r \in RawResults :
          /\ log' = Append(log, Invocation(Calls[k], Returned(r)))
          /\ out' = << IF ("answer" \notin DOMAIN r) \/ r.answer = "" \/ r.score < 0
                          THEN [score |-> 0, answer |-> "", start |-> None, end |-> None]
                          ELSE r >>
    /\ pc' = "print"
    /\ UNCHANGED <<k, nlp, builds, stdout, exc>>

\* A mapping slip: start and end change places.
CallReturnsSwapped ==
    /\ pc = "call"
    /\ nlp = "pipeline"
    /\ \E r \in RawResults :
          /\ log' = Append(log, Invocation(Calls[k], Returned(r)))
          /\ out' = << [r EXCEPT !.start = r.end, !.end = r.start] >>
    /\ pc' = "print"
    /\ UNCHANGED <<k, nlp, builds, stdout, exc>>

\* The score is clamped into [0,1] before it is bound to `out`.
CallReturnsClamped ==
    /\ pc = "call"
    /\ nlp = "pipeline"
    /\ \E r \in RawResults :
          /\ log' = Append(log, Invocation(Calls[k], Returned(r)))
          /\ out' = << [r EXCEPT !.score = IF r.score < 0 THEN 0
                                           ELSE IF r.score > 1000 THEN 1000
                                           ELSE r.score] >>
    /\ pc' = "print"
    /\ UNCHANGED <<k, nlp, builds, stdout, exc>>

\* out = nlp(url, question) and the backend returns r.
CallReturns ==
    /\ pc = "call"
    /\ nlp = "pipeline"
    /\ \E r \in RawResults :
          /\ log' = Append(log, Invocation(Calls[k], Returned(r)))
          /\ out' = <<r>>
    /\ pc' = "print"
    /\ UNCHANGED <<k, nlp, builds, stdout, exc>>

\* A failed call is retried once before the error is let through.
CallRaisesAfterRetry ==
    /\ pc = "call"
    /\ nlp = "pipeline"
    /\ \E e \in ErrorKinds :
          /\ log' = Append(Append(log, Invocation(Calls[k], Raised(e))),
                           Invocation(Calls[k], Raised(e)))
          /\ exc' = e
    /\ pc' = "raised"
    /\ UNCHANGED <<k, nlp, builds, out, stdout>>

\* try: ... except: pass -- the error is dropped and the script goes on.
CallRaisesSwallowed ==
    /\ pc = "call"
    /\ nlp = "pipeline"
    /\ \E e \in ErrorKinds :
          log' = Append(log, Invocation(Calls[k], Raised(e)))
    /\ IF k = NumCalls
          THEN pc' = "done" /\ k' = k
          ELSE pc' = "call" /\ k' = k + 1
    /\ UNCHANGED <<nlp, builds, out, stdout, exc>>

\* except: print({"answer": ""}); raise -- a stub record is printed for the
\* failed call before the error is let through.
CallRaisesAndPrints ==
    /\ pc = "call"
    /\ nlp = "pipeline"
    /\ \E e \in ErrorKinds :
          /\ log' = Append(log, Invocation(Calls[k], Raised(e)))
          /\ exc' = e
    /\ stdout' = Append(stdout, [answer |-> ""])
    /\ pc' = "raised"
    /\ UNCHANGED <<k, nlp, builds, out>>

\* out = nlp(url, question) and the backend raises: nothing catches it.
CallRaises ==
    /\ pc = "call"
    /\ nlp = "pipeline"
    /\ \E e \in ErrorKinds :
          /\ log' = Append(log, Invocation(Calls[k], Raised(e)))
          /\ exc' = e
    /\ pc' = "raised"
    /\ UNCHANGED <<k, nlp, builds, out, stdout>>

\* The print statement is missing: the script goes straight to the next call.
PrintOutSkipped ==
    /\ pc = "print"
    /\ IF k = NumCalls
          THEN pc' = "done" /\ k' = k
          ELSE pc' = "call" /\ k' = k + 1
    /\ UNCHANGED <<nlp, builds, out, stdout, log, exc>>

\* print(out), then on to the next statement.
PrintOut ==
    /\ pc = "print"
    /\ stdout' = Append(stdout, out[1])
    /\ IF k = NumCalls
          THEN pc' = "done" /\ k' = k
          ELSE pc' = "call" /\ k' = k + 1
    /\ UNCHANGED <<nlp, builds, out, log, exc>>

Next ==
    \/ BuildOk
    \/ BuildRaises
    \/ CallReturns
    \/ CallRaises
    \/ PrintOut

Spec == Init /\ [][Next]_vars

-----------------------------------------------------------------------------
(* Vocabulary of the properties *)

\* A request the runner would accept: non-empty locator, non-empty question.
ValidRequest(c) == c.url # "" /\ c.question # ""

\* The backend signals "no confident answer": answer empty or missing, or a
\* score below zero.
HasAnswer(r) == "answer" \in DOMAIN r

NoAnswer(r) == \/ ~HasAnswer(r)
               \/ r.answer = ""
               \/ r.score < 0

\* The record the empty-answer invariant prescribes.
EmptyAnswerResult == [score |-> 0, answer |-> "", start |-> None, end |-> None]

\* Empty answer text implies confidence 0 and both offsets null.
EmptyAnswerInvariant(r) ==
    (HasAnswer(r) /\ r.answer = "") => (r.score = 0 /\ r.start = None /\ r.end = None)

\* All four fields of an AnswerResult are present.
Complete(r) == DOMAIN r = {"score", "answer", "start", "end"}

OffsetOk(o) == o = None \/ o[1] >= 0

\* Confidence in [0,1], offsets null or non-negative, end >= start.
InRange(r) ==
    /\ 0 <= r.score /\ r.score <= 1000
    /\ OffsetOk(r.start)
    /\ OffsetOk(r.end)
    /\ (r.start # None /\ r.end # None) => r.end[1] >= r.start[1]

\* Call statements whose backend invocation has returned a result.
Answered == { j \in 1..Len(log) : IsResult(log[j].outcome) }

\* Call statements whose backend invocation raised.
Failed == { j \in 1..Len(log) : IsError(log[j].outcome) }

\* Call statements whose result has been printed.
Printed == 1..Len(stdout)

\* The raw result the backend returned to call statement j.
Raw(j) == log[j].outcome.result

\* Call statements the script has executed so far.
Executed == IF pc = "call" THEN 1..(k - 1) ELSE 1..k

\* Backend invocations made on behalf of call statement j's arguments.
InvocationsFor(c) == { i \in 1..Len(log) : log[i].url = c.url /\ log[i].question = c.question }

-----------------------------------------------------------------------------
(* C2 *)

\* C2: every executed call statement (all four have valid inputs) has
\* invoked the backend exactly once, with its own (url, question) pair,
\* whether the backend returned or raised; nothing is invoked for a
\* statement not yet executed, so there is no retry and no skipped call.
C2_ExactlyOneInvocation ==
    /\ Len(log) = Cardinality(Executed)
    /\ \A j \in 1..NumCalls :
          /\ ValidRequest(Calls[j])
          /\ Cardinality(InvocationsFor(Calls[j])) = (IF j \in Executed THEN 1 ELSE 0)
          /\ j \in Executed => InvocationsFor(Calls[j]) = {j}

\* A run in which one call succeeded and the next one failed.
C2_Witness ==
    /\ pc = "raised"
    /\ Len(log) = 2
    /\ IsResult(log[1].outcome)
    /\ IsError(log[2].outcome)

\* Call statements that have returned a value to the script.
Returns == { j \in Executed : j \in Printed \/ (pc = "print" /\ j = k) }

\* The value call statement j returned: what was printed for it, or what is
\* bound to `out` and about to be printed.
Result(j) == IF j \in Printed THEN stdout[j] ELSE out[1]

-----------------------------------------------------------------------------
(* C3 *)

\* The statement as made for the runner: every executed call has exactly one
\* outcome, a complete result satisfying the empty-answer invariant or a
\* failure with the backend's error.
C3_Original ==
    \A j \in Executed :
        \/ /\ j \in Returns
           /\ j \notin Failed
           /\ Complete(Result(j))
           /\ EmptyAnswerInvariant(Result(j))
        \/ /\ j \in Failed
           /\ j \notin Returns
           /\ exc \in ErrorKinds

\* C3 (as amended): every executed call statement has exactly one of two
\* outcomes.  Either it returned a record carrying exactly the fields of the
\* backend's raw result (none dropped, none added), which satisfies the
\* empty-answer invariant precisely when the raw result does; or it failed
\* with the backend's error and returned and printed nothing.  Never both.
C3_OneOutcome ==
    \A j \in Executed :
        \/ /\ j \in Returns
           /\ j \in Answered
           /\ j \notin Failed
           /\ DOMAIN Result(j) = DOMAIN Raw(j)
           /\ EmptyAnswerInvariant(Result(j)) <=> EmptyAnswerInvariant(Raw(j))
        \/ /\ j \in Failed
           /\ j \notin Answered
           /\ j \notin Returns
           /\ exc \in ErrorKinds

\* One call printed a result that breaks the empty-answer invariant and the
\* next call failed.
C3_Witness ==
    /\ pc = "raised"
    /\ Len(log) = 2
    /\ Len(stdout) = 1
    /\ ~EmptyAnswerInvariant(stdout[1])
    /\ 2 \in Failed

-----------------------------------------------------------------------------
(* C4 *)

\* The statement as made for the runner: a "no confident answer" raw result
\* comes back as the empty-answer record.
C4_Original ==
    \A j \in Returns \cap Answered :
        NoAnswer(Raw(j)) => Result(j) = EmptyAnswerResult

\* C4 (as amended): whenever the raw result has an empty answer, no answer
\* key or a score below zero, the call returns and prints that raw result
\* unchanged: a negative score and non-null offsets appear in the output as
\* the backend gave them, and a missing answer key stays missing.
C4_SentinelsPassThrough ==
    \A j \in Returns :
        /\ j \in Answered
        /\ NoAnswer(Raw(j)) => Result(j) = Raw(j)

\* A printed result with a negative score and offsets present.
C4_Witness ==
    \E j \in Printed :
        /\ j \in Answered
        /\ Raw(j).score < 0
        /\ Raw(j).start # None
        /\ stdout[j].score < 0

-----------------------------------------------------------------------------
(* C5 *)

\* C5: whenever the backend raises during a call, the script dies with that
\* very error: the failed call is the last invocation made, the error kept
\* is the kind the backend raised, the call returned no value and nothing
\* was printed for it, and the error is not an invalid-request error.
C5_BackendErrorPropagates ==
    \A j \in Failed :
        /\ j = Len(log)
        /\ pc = "raised"
        /\ exc = log[j].outcome.error
        /\ exc # "InvalidRequestError"
        /\ j \notin Returns
        /\ Len(stdout) = j - 1

\* The second call timed out after the first one was printed.
C5_Witness ==
    /\ pc = "raised"
    /\ Len(stdout) = 1
    /\ 2 \in Failed
    /\ log[2].outcome.error = "timeout"
    /\ exc = "timeout"

-----------------------------------------------------------------------------
(* C6 *)

\* C6: when the backend returns a raw result with a non-empty answer and a
\* non-negative score, the value the call returns (and the script prints)
\* has all four fields, each equal to the raw result's field of the same
\* role: answer, score, start, end.
C6_FieldsOneForOne ==
    \A j \in Returns :
        /\ j \in Answered
        /\ ~NoAnswer(Raw(j)) =>
              /\ Complete(Result(j))
              /\ Result(j).answer = Raw(j).answer
              /\ Result(j).score = Raw(j).score
              /\ Result(j).start = Raw(j).start
              /\ Result(j).end = Raw(j).end

\* The first call's result "us-001" with score 0.994 has been printed.
C6_Witness ==
    /\ Len(stdout) >= 1
    /\ 1 \in Answered
    /\ Raw(1) = [score |-> 994, answer |-> "us-001",
                 start |-> Some(0), end |-> Some(MaxToken)]
    /\ stdout[1].answer = "us-001"

-----------------------------------------------------------------------------
(* C9 *)

\* The statement as made for the runner: every returned record has its
\* confidence in [0,1], offsets null or non-negative, and end >= start.
C9_Original ==
    \A j \in Returns : InRange(Result(j))

\* C9 (as amended): every returned record carries the score and the offsets
\* of the raw result unchanged, so it satisfies the range constraints exactly
\* when the raw result does; a score above 1 or an end below start is
\* returned and printed as the backend gave it.
C9_RangeAsReturned ==
    \A j \in Returns :
        /\ j \in Answered
        /\ Result(j).score = Raw(j).score
        /\ Result(j).start = Raw(j).start
        /\ Result(j).end = Raw(j).end
        /\ InRange(Result(j)) <=> InRange(Raw(j))

\* A printed result with a score above 1 and its end before its start.
C9_Witness ==
    \E j \in Printed :
        /\ stdout[j].score > 1000
        /\ stdout[j].start # None
        /\ stdout[j].end # None
        /\ stdout[j].end[1] < stdout[j].start[1]

-----------------------------------------------------------------------------
(* C10 *)

\* C10: the pipeline is built exactly once, before any inference call; the
\* four calls are made in source order on it; call k+1 is made only after
\* call k has returned and its result has been printed; a call (or the
\* build) that raises ends the run, with no later call and nothing printed
\* for the failed call; the printed results are the calls' results in call
\* order.
C10_SequentialRun ==
    /\ builds <= 1
    /\ pc # "build" => builds = 1
    /\ Len(log) > 0 => (nlp = "pipeline" /\ builds = 1)
    /\ nlp = "unbound" => Len(log) = 0
    /\ \A j \in 1..Len(log) :
          log[j].url = Calls[j].url /\ log[j].question = Calls[j].question
    /\ pc = "call" => (Len(log) = k - 1 /\ Len(stdout) = k - 1)
    /\ pc = "print" => (Len(log) = k /\ Len(stdout) = k - 1)
    /\ pc = "done" => (Len(log) = NumCalls /\ Len(stdout) = NumCalls)
    /\ pc = "raised" => (Len(log) = k /\ Len(stdout) = Cardinality(Answered))
    /\ exc # "none" => pc = "raised"
    /\ Failed # {} => (pc = "raised" /\ Failed = {Len(log)})
    /\ \A j \in Printed : j \in Answered /\ stdout[j] = Raw(j)

\* The script ran to its end: four calls made, four results printed.
C10_Witness ==
    /\ pc = "done"
    /\ Len(stdout) = NumCalls
    /\ Len(log) = NumCalls
    /\ builds = 1

=============================================================================
